---- MODULE Spec2Model ----
(***************************************************************************)
(* Email triage of Whaleylaw/Email_Manager.                                *)
(*                                                                         *)
(* The model covers scripts/email_triage_agent.py (EmailTriageAgent,       *)
(* EmailTriageFlow) and the triage_email wrapper of scripts/gmail_sync.py. *)
(*                                                                         *)
(* A Python str is a sequence of one-character strings, so that `in`,      *)
(* lower(), strip(), split() and slicing are computed character by         *)
(* character as Python computes them.  Python's None is the value None     *)
(* below (a one-element sequence whose element is not a character, hence   *)
(* different from every str).                                              *)
(***************************************************************************)
EXTENDS Integers, Sequences, FiniteSets, TLC

(***************************************************************************)
(* Bounds of the model                                                     *)
(***************************************************************************)
\* emails triaged by one run of gmail_sync
MaxEmails == 2

(***************************************************************************)
(* Python str primitives                                                   *)
(***************************************************************************)
None == <<"<None>">>

\* truth value of `x` in `if x` for x a str or None
Truthy(s) == s # None /\ s # <<>>

UpperCase == <<"A","B","C","D","E","F","G","H","I","J","K","L","M",
               "N","O","P","Q","R","S","T","U","V","W","X","Y","Z">>
LowerCase == <<"a","b","c","d","e","f","g","h","i","j","k","l","m",
               "n","o","p","q","r","s","t","u","v","w","x","y","z">>

LowerChar(c) ==
    IF \E i \in 1..26 : UpperCase[i] = c
    THEN LowerCase[CHOOSE i \in 1..26 : UpperCase[i] = c]
    ELSE c

\* str.lower()
Lower(s) == [i \in 1..Len(s) |-> LowerChar(s[i])]

\* needle in hay
In(needle, hay) ==
    \E i \in 1..(Len(hay) - Len(needle) + 1) :
        \A k \in 1..Len(needle) : hay[i + k - 1] = needle[k]

\* any(term in hay for term in terms)
AnyIn(terms, hay) == \E j \in 1..Len(terms) : In(terms[j], hay)

\* s[:n]
Take(s, n) == SubSeq(s, 1, IF Len(s) < n THEN Len(s) ELSE n)

\* hay.count(needle): non-overlapping occurrences, scanning from the left
\* needle occurs in hay at position i
At(needle, hay, i) ==
    /\ i + Len(needle) - 1 <= Len(hay)
    /\ \A k \in 1..Len(needle) : hay[i + k - 1] = needle[k]

RECURSIVE CountFrom(_, _, _)
CountFrom(needle, hay, i) ==
    IF \E j \in i..Len(hay) : At(needle, hay, j)
    THEN LET j == CHOOSE j \in i..Len(hay) :
                      At(needle, hay, j) /\ \A h \in i..(j - 1) : ~At(needle, hay, h)
         IN  1 + CountFrom(needle, hay, j + Len(needle))
    ELSE 0

Count(needle, hay) == CountFrom(needle, hay, 1)

\* the characters str.strip() removes
Whitespace == {" ", "\t", "\n", "\r", "\f"}

\* str.strip()
Strip(s) ==
    IF \A i \in 1..Len(s) : s[i] \in Whitespace THEN <<>>
    ELSE LET first == CHOOSE i \in 1..Len(s) :
                         /\ s[i] \notin Whitespace
                         /\ \A j \in 1..(i - 1) : s[j] \in Whitespace
             last  == CHOOSE i \in 1..Len(s) :
                         /\ s[i] \notin Whitespace
                         /\ \A j \in (i + 1)..Len(s) : s[j] \in Whitespace
         IN  SubSeq(s, first, last)

\* str.split("\n", 1): one part when there is no newline, else two
SplitFirstNewline(s) ==
    IF \E i \in 1..Len(s) : s[i] = "\n"
    THEN LET n == CHOOSE i \in 1..Len(s) :
                      s[i] = "\n" /\ \A j \in 1..(i - 1) : s[j] # "\n"
         IN  <<SubSeq(s, 1, n - 1), SubSeq(s, n + 1, Len(s))>>
    ELSE <<s>>

(***************************************************************************)
(* EmailTriageAgent._analyze_email_indicators                              *)
(***************************************************************************)
\* confidences are in hundredths: 0.95 is 95, 0.9 is 90
HighConfidence == 95
IgnoreConfidence == 90
ConfidenceThreshold == 90
\* body_lower[:500]
BodyHead == 500
\* body_lower.count("http") > 5
ManyLinks == 5

\* the category None of an inconclusive match
NoCategory == "None"

message_terms == << <<"v","o","i","c","e"," ","m","e","s","s","a","g","e">>, <<"t","e","x","t"," ","m","e","s","s","a","g","e">>, <<"f","a","x">> >>

\* mutant: the matcher uses the shorter list of the safeguard
legal_indicators_Short ==
    << <<"c","a","s","e">>, <<"c","o","u","r","t">>, <<"a","t","t","o","r","n","e","y">>, <<"e","s","t","a","t","e">>, <<"v",".">>, <<"v","s",".">>,
       <<"p","l","a","i","n","t","i","f","f">>, <<"d","e","f","e","n","d","a","n","t">> >>

legal_indicators ==
    << <<"c","a","s","e">>, <<"c","o","u","r","t">>, <<"f","i","l","i","n","g">>, <<"a","t","t","o","r","n","e","y">>, <<"l","a","w","y","e","r">>, <<"l","e","g","a","l">>,
       <<"h","e","a","r","i","n","g">>, <<"p","l","a","i","n","t","i","f","f">>, <<"d","e","f","e","n","d","a","n","t">>, <<"e","s","t","a","t","e">>, <<"v","s",".">>, <<"v",".">> >>

\* mutant: the firm's own domain is missing from the list
team_domains_NoFirm == << <<"f","i","l","e","v","i","n","e",".","c","o","m">>, <<"b","l","a","z","e","o",".","c","o","m">> >>

team_domains == << <<"w","h","a","l","e","y","l","a","w","f","i","r","m",".","c","o","m">>, <<"f","i","l","e","v","i","n","e",".","c","o","m">>, <<"b","l","a","z","e","o",".","c","o","m">> >>

platform_domains ==
    << <<"s","k","o","o","l",".","c","o","m">>, <<"m","e","d","i","u","m",".","c","o","m">>, <<"f","a","c","e","b","o","o","k",".","c","o","m">>, <<"t","w","i","t","t","e","r",".","c","o","m">>,
       <<"l","i","n","k","e","d","i","n",".","c","o","m">> >>

\* mutant: all() for any()
IsRingCentralMessage_AllTerms(subject_lower, sender_lower) ==
    /\ \A j \in 1..Len(message_terms) : In(message_terms[j], subject_lower)
    /\ In(<<"r","i","n","g","c","e","n","t","r","a","l">>, sender_lower)

\* check 1: voice/text/fax message from RingCentral
IsRingCentralMessage(subject_lower, sender_lower) ==
    AnyIn(message_terms, subject_lower) /\ In(<<"r","i","n","g","c","e","n","t","r","a","l">>, sender_lower)

\* mutant: the bill/due disjunct is lost
IsBill_PaymentOnly(subject_lower) == In(<<"p","a","y","m","e","n","t"," ","r","e","q","u","i","r","e","d">>, subject_lower)

\* check 2: bills and payments
IsBill(subject_lower) ==
    \/ In(<<"b","i","l","l">>, subject_lower) /\ In(<<"d","u","e">>, subject_lower)
    \/ In(<<"p","a","y","m","e","n","t"," ","r","e","q","u","i","r","e","d">>, subject_lower)

\* check 3: the first legal indicator, in list order, found in the subject
HasLegalIndicator(subject_lower) == AnyIn(legal_indicators, subject_lower)

FirstLegalIndicator(subject_lower) ==
    legal_indicators[CHOOSE i \in 1..Len(legal_indicators) :
        /\ In(legal_indicators[i], subject_lower)
        /\ \A j \in 1..(i - 1) : ~In(legal_indicators[j], subject_lower)]

\* check 4: team member
is_team_member(sender_lower) == AnyIn(team_domains, sender_lower)

platform_indicators(subject_lower, body_lower, sender_lower) ==
    << In(<<"n","e","w"," ","n","o","t","i","f","i","c","a","t","i","o","n">>, subject_lower),
       In(<<"n","o","t","i","f","i","c","a","t","i","o","n">>, subject_lower) /\ ~In(<<"c","o","u","r","t">>, subject_lower),
       In(<<"d","i","g","e","s","t">>, subject_lower),
       In(<<"w","h","a","t"," ","y","o","u"," ","m","i","s","s","e","d">>, body_lower),
       In(<<"n","o","t","i","f","i","c","a","t","i","o","n"," ","s","i","n","c","e">>, body_lower),
       In(<<"n","o","r","e","p","l","y">>, sender_lower),
       In(<<"n","o","-","r","e","p","l","y">>, sender_lower),
       In(<<"d","o","n","o","t","r","e","p","l","y">>, sender_lower),
       In(<<"n","o","t","i","f","i","c","a","t","i","o","n">>, sender_lower),
       In(<<"u","p","d","a","t","e","s">>, subject_lower) /\ In(<<"n","e","w">>, subject_lower),
       AnyIn(platform_domains, sender_lower),
       In(<<"v","i","e","w"," ","o","n","l","i","n","e">>, Take(body_lower, BodyHead)),
       In(<<"v","i","e","w"," ","i","n"," ","b","r","o","w","s","e","r">>, body_lower),
       In(<<"e","m","a","i","l"," ","p","r","e","f","e","r","e","n","c","e","s">>, body_lower),
       In(<<"u","n","s","u","b","s","c","r","i","b","e">>, body_lower)
           /\ (In(<<"o","f","f","e","r">>, body_lower) \/ In(<<"d","i","s","c","o","u","n","t">>, body_lower)),
       Count(<<"h","t","t","p">>, body_lower) > ManyLinks,
       In(<<"t","o","o"," ","m","a","n","y"," ","e","m","a","i","l","s">>, body_lower) >>

platform_reasons ==
    << <<"E","m","a","i","l"," ","c","o","n","t","a","i","n","s"," ","'","n","e","w"," ","n","o","t","i","f","i","c","a","t","i","o","n","'"," ","i","n"," ","s","u","b","j","e","c","t">>,
       <<"E","m","a","i","l"," ","c","o","n","t","a","i","n","s"," ","'","n","o","t","i","f","i","c","a","t","i","o","n","'"," ","i","n"," ","s","u","b","j","e","c","t">>,
       <<"E","m","a","i","l"," ","i","s"," ","a"," ","d","i","g","e","s","t">>,
       <<"E","m","a","i","l"," ","c","o","n","t","a","i","n","s"," ","'","w","h","a","t"," ","y","o","u"," ","m","i","s","s","e","d","'">>,
       <<"E","m","a","i","l"," ","c","o","n","t","a","i","n","s"," ","'","n","o","t","i","f","i","c","a","t","i","o","n"," ","s","i","n","c","e","'">>,
       <<"E","m","a","i","l"," ","i","s"," ","f","r","o","m"," ","n","o","r","e","p","l","y"," ","a","d","d","r","e","s","s">>,
       <<"E","m","a","i","l"," ","i","s"," ","f","r","o","m"," ","n","o","-","r","e","p","l","y"," ","a","d","d","r","e","s","s">>,
       <<"E","m","a","i","l"," ","i","s"," ","f","r","o","m"," ","d","o","n","o","t","r","e","p","l","y"," ","a","d","d","r","e","s","s">>,
       <<"E","m","a","i","l"," ","i","s"," ","f","r","o","m"," ","n","o","t","i","f","i","c","a","t","i","o","n"," ","s","e","n","d","e","r">>,
       <<"E","m","a","i","l"," ","c","o","n","t","a","i","n","s"," ","'","u","p","d","a","t","e","s","'"," ","a","n","d"," ","'","n","e","w","'"," ","i","n"," ","s","u","b","j","e","c","t">>,
       <<"E","m","a","i","l"," ","i","s"," ","f","r","o","m"," ","s","o","c","i","a","l","/","p","l","a","t","f","o","r","m"," ","d","o","m","a","i","n">>,
       <<"E","m","a","i","l"," ","h","a","s"," ","'","v","i","e","w"," ","o","n","l","i","n","e","'"," ","a","t"," ","t","o","p">>,
       <<"E","m","a","i","l"," ","h","a","s"," ","'","v","i","e","w"," ","i","n"," ","b","r","o","w","s","e","r","'">>,
       <<"E","m","a","i","l"," ","m","e","n","t","i","o","n","s"," ","e","m","a","i","l"," ","p","r","e","f","e","r","e","n","c","e","s">>,
       <<"E","m","a","i","l"," ","h","a","s"," ","u","n","s","u","b","s","c","r","i","b","e"," ","a","n","d"," ","o","f","f","e","r","/","d","i","s","c","o","u","n","t">>,
       <<"E","m","a","i","l"," ","c","o","n","t","a","i","n","s"," ","m","a","n","y"," ","l","i","n","k","s"," ","(","m","a","r","k","e","t","i","n","g",")">>,
       <<"E","m","a","i","l"," ","m","e","n","t","i","o","n","s"," ","'","t","o","o"," ","m","a","n","y"," ","e","m","a","i","l","s","'">> >>

marketing_indicators(subject_lower, body_lower) ==
    << In(<<"o","f","f","e","r">>, subject_lower),
       In(<<"d","i","s","c","o","u","n","t">>, subject_lower),
       In(<<"s","a","l","e">>, subject_lower),
       In(<<"d","e","a","l">>, subject_lower),
       In(<<"p","r","o","m","o","t","i","o","n">>, subject_lower),
       In(<<"s","p","e","c","i","a","l">>, subject_lower) /\ In(<<"o","f","f","e","r">>, subject_lower),
       In(<<"c","o","u","p","o","n">>, subject_lower),
       In(<<"l","i","m","i","t","e","d"," ","t","i","m","e">>, subject_lower)
           \/ In(<<"l","i","m","i","t","e","d"," ","t","i","m","e">>, Take(body_lower, BodyHead)),
       In(<<"o","f","f">>, subject_lower) /\ In(<<"%">>, subject_lower),
       In(<<"e","x","c","l","u","s","i","v","e">>, subject_lower),
       In(<<"r","e","w","a","r","d">>, subject_lower) /\ ~In(<<"l","a","w">>, subject_lower),
       In(<<"p","r","o"," ","d","a","y","s">>, Take(body_lower, BodyHead)),
       In(<<"p","r","o"," ","d","a","y","s">>, subject_lower),
       In(<<"c","o","m","e"," ","b","a","c","k">>, subject_lower),
       In(<<"m","i","s","s"," ","y","o","u">>, subject_lower),
       In(<<"s","a","v","e">>, subject_lower) /\ In(<<"$">>, subject_lower) >>

\* any(flags) for a list of booleans
AnyTrue(flags) == \E i \in 1..Len(flags) : flags[i]

\* mutant: the scan does not stop at the first true flag, the last one wins
FirstTrue_Last(flags) ==
    CHOOSE i \in 1..Len(flags) : flags[i] /\ \A j \in (i + 1)..Len(flags) : ~flags[j]

\* index of the first true flag
FirstTrue(flags) ==
    CHOOSE i \in 1..Len(flags) : flags[i] /\ \A j \in 1..(i - 1) : ~flags[j]

\* the (likely_category, confidence, reasoning) triple
Indication(category, confidence, reasoning) ==
    [kind |-> "indication", category |-> category, confidence |-> confidence,
     reasoning |-> reasoning]

\* mutant: the ignore filters are evaluated before the legal and team checks
AnalyzeEmailIndicators_IgnoreFirst(subject, body, sender) ==
    LET subject_lower == IF Truthy(subject) THEN Lower(subject) ELSE <<>>
        body_lower    == IF Truthy(body) THEN Lower(body) ELSE <<>>
        sender_lower  == IF Truthy(sender) THEN Lower(sender) ELSE <<>>
        platform      == platform_indicators(subject_lower, body_lower, sender_lower)
        marketing     == marketing_indicators(subject_lower, body_lower)
    IN  IF IsRingCentralMessage(subject_lower, sender_lower)
        THEN Indication("notify", HighConfidence,
                        <<"M","e","s","s","a","g","e"," ","n","o","t","i","f","i","c","a","t","i","o","n"," ","f","r","o","m"," ","R","i","n","g","C","e","n","t","r","a","l">>)
        ELSE IF IsBill(subject_lower)
        THEN Indication("notify", HighConfidence, <<"B","i","l","l"," ","o","r"," ","p","a","y","m","e","n","t"," ","n","o","t","i","f","i","c","a","t","i","o","n">>)
        ELSE IF AnyTrue(platform)
        THEN Indication("ignore", IgnoreConfidence, platform_reasons[FirstTrue(platform)])
        ELSE IF AnyTrue(marketing)
        THEN Indication("ignore", IgnoreConfidence,
                        <<"E","m","a","i","l"," ","c","o","n","t","a","i","n","s"," ","m","a","r","k","e","t","i","n","g","/","p","r","o","m","o","t","i","o","n","a","l"," ","c","o","n","t","e","n","t">>)
        ELSE IF HasLegalIndicator(subject_lower)
        THEN Indication("respond", HighConfidence,
                        <<"L","e","g","a","l"," ","t","e","r","m"," ","i","n"," ","s","u","b","j","e","c","t",":"," ","'">>
                            \o FirstLegalIndicator(subject_lower) \o <<"'">>)
        ELSE IF is_team_member(sender_lower)
        THEN Indication("respond", HighConfidence, <<"E","m","a","i","l"," ","f","r","o","m"," ","t","e","a","m"," ","m","e","m","b","e","r"," ","d","o","m","a","i","n">>)
        ELSE Indication(NoCategory, 0,
                        <<"N","o"," ","c","o","n","c","l","u","s","i","v","e"," ","i","n","d","i","c","a","t","o","r","s"," ","f","o","u","n","d",","," ","n","e","e","d"," ","A","I"," ","a","n","a","l","y","s","i","s">>)

AnalyzeEmailIndicators(subject, body, sender) ==
    LET subject_lower == IF Truthy(subject) THEN Lower(subject) ELSE <<>>
        body_lower    == IF Truthy(body) THEN Lower(body) ELSE <<>>
        sender_lower  == IF Truthy(sender) THEN Lower(sender) ELSE <<>>
        platform      == platform_indicators(subject_lower, body_lower, sender_lower)
        marketing     == marketing_indicators(subject_lower, body_lower)
    IN  IF IsRingCentralMessage(subject_lower, sender_lower)
        THEN Indication("notify", HighConfidence,
                        <<"M","e","s","s","a","g","e"," ","n","o","t","i","f","i","c","a","t","i","o","n"," ","f","r","o","m"," ","R","i","n","g","C","e","n","t","r","a","l">>)
        ELSE IF IsBill(subject_lower)
        THEN Indication("notify", HighConfidence, <<"B","i","l","l"," ","o","r"," ","p","a","y","m","e","n","t"," ","n","o","t","i","f","i","c","a","t","i","o","n">>)
        ELSE IF HasLegalIndicator(subject_lower)
        THEN Indication("respond", HighConfidence,
                        <<"L","e","g","a","l"," ","t","e","r","m"," ","i","n"," ","s","u","b","j","e","c","t",":"," ","'">>
                            \o FirstLegalIndicator(subject_lower) \o <<"'">>)
        ELSE IF is_team_member(sender_lower)
        THEN Indication("respond", HighConfidence, <<"E","m","a","i","l"," ","f","r","o","m"," ","t","e","a","m"," ","m","e","m","b","e","r"," ","d","o","m","a","i","n">>)
        ELSE IF AnyTrue(platform)
        THEN Indication("ignore", IgnoreConfidence, platform_reasons[FirstTrue(platform)])
        ELSE IF AnyTrue(marketing)
        THEN Indication("ignore", IgnoreConfidence,
                        <<"E","m","a","i","l"," ","c","o","n","t","a","i","n","s"," ","m","a","r","k","e","t","i","n","g","/","p","r","o","m","o","t","i","o","n","a","l"," ","c","o","n","t","e","n","t">>)
        ELSE Indication(NoCategory, 0,
                        <<"N","o"," ","c","o","n","c","l","u","s","i","v","e"," ","i","n","d","i","c","a","t","o","r","s"," ","f","o","u","n","d",","," ","n","e","e","d"," ","A","I"," ","a","n","a","l","y","s","i","s">>)

(***************************************************************************)
(* EmailTriageAgent.triage_email                                           *)
(***************************************************************************)
\* what a call produced: a returned (category, reasoning) or a raised error
Return(category, reasoning) ==
    [kind |-> "return", category |-> category, reasoning |-> reasoning]
Raise(error) == [kind |-> "raise", error |-> error]

\* str(e) of the AttributeError of None.lower()
NoneHasNoLower == <<"'","N","o","n","e","T","y","p","e","'"," ","o","b","j","e","c","t"," ","h","a","s"," ","n","o"," ","a","t","t","r","i","b","u","t","e"," ","'","l","o","w","e","r","'">>
\* str(e) of the TypeError of None[:500]
NoneNotSubscriptable == <<"'","N","o","n","e","T","y","p","e","'"," ","o","b","j","e","c","t"," ","i","s"," ","n","o","t"," ","s","u","b","s","c","r","i","p","t","a","b","l","e">>

AutomaticPrefix == <<"A","u","t","o","m","a","t","i","c"," ","c","a","t","e","g","o","r","i","z","a","t","i","o","n",":"," ">>

\* mutant: > for >=
SkipsAgent_Strict(pre) ==
    pre.category # NoCategory /\ pre.confidence > ConfidenceThreshold

\* `if pre_category and confidence >= 0.9`
SkipsAgent(pre) ==
    pre.category # NoCategory /\ pre.confidence >= ConfidenceThreshold

\* the early return of the high-confidence case
AutomaticResult(pre) == Return(pre.category, AutomaticPrefix \o pre.reasoning)

\* mutant: an unrecognised first line keeps a category outside the three
ParseResult_Unknown(raw) ==
    LET result_text   == Strip(raw)
        parts         == SplitFirstNewline(result_text)
        category_text == Strip(Lower(parts[1]))
        reasoning     == IF Len(parts) > 1 THEN Strip(parts[2])
                         ELSE <<"N","o"," ","r","e","a","s","o","n","i","n","g"," ","p","r","o","v","i","d","e","d">>
    IN  IF category_text = <<"i","g","n","o","r","e">> THEN Return("ignore", reasoning)
        ELSE IF category_text = <<"n","o","t","i","f","y">> THEN Return("notify", reasoning)
        ELSE IF category_text = <<"r","e","s","p","o","n","d">> THEN Return("respond", reasoning)
        ELSE Return("unknown", reasoning)

\* mutant: the first line is compared without lower()
ParseResult_CaseSensitive(raw) ==
    LET result_text   == Strip(raw)
        parts         == SplitFirstNewline(result_text)
        category_text == Strip(parts[1])
        reasoning     == IF Len(parts) > 1 THEN Strip(parts[2])
                         ELSE <<"N","o"," ","r","e","a","s","o","n","i","n","g"," ","p","r","o","v","i","d","e","d">>
    IN  IF category_text = <<"i","g","n","o","r","e">> THEN Return("ignore", reasoning)
        ELSE IF category_text = <<"n","o","t","i","f","y">> THEN Return("notify", reasoning)
        ELSE IF category_text = <<"r","e","s","p","o","n","d">> THEN Return("respond", reasoning)
        ELSE Return("notify",
                    <<"C","o","u","l","d"," ","n","o","t"," ","d","e","t","e","r","m","i","n","e"," ","e","x","a","c","t"," ","c","a","t","e","g","o","r","y"," ","f","r","o","m"," ","'">> \o category_text
                        \o <<"'",","," ","d","e","f","a","u","l","t","i","n","g"," ","t","o"," ","'","n","o","t","i","f","y","'",".","\n">> \o result_text)

\* parsing of result.raw into (category, reasoning); split() always yields
\* at least one part, so the "Failed to parse result" branch is never taken
ParseResult(raw) ==
    LET result_text   == Strip(raw)
        parts         == SplitFirstNewline(result_text)
        category_text == Strip(Lower(parts[1]))
        reasoning     == IF Len(parts) > 1 THEN Strip(parts[2])
                         ELSE <<"N","o"," ","r","e","a","s","o","n","i","n","g"," ","p","r","o","v","i","d","e","d">>
    IN  IF category_text = <<"i","g","n","o","r","e">> THEN Return("ignore", reasoning)
        ELSE IF category_text = <<"n","o","t","i","f","y">> THEN Return("notify", reasoning)
        ELSE IF category_text = <<"r","e","s","p","o","n","d">> THEN Return("respond", reasoning)
        ELSE Return("notify",
                    <<"C","o","u","l","d"," ","n","o","t"," ","d","e","t","e","r","m","i","n","e"," ","e","x","a","c","t"," ","c","a","t","e","g","o","r","y"," ","f","r","o","m"," ","'">> \o category_text
                        \o <<"'",","," ","d","e","f","a","u","l","t","i","n","g"," ","t","o"," ","'","n","o","t","i","f","y","'",".","\n">> \o result_text)

legal_terms ==
    << <<"c","a","s","e">>, <<"c","o","u","r","t">>, <<"a","t","t","o","r","n","e","y">>, <<"e","s","t","a","t","e">>, <<"v",".">>, <<"v","s",".">>,
       <<"p","l","a","i","n","t","i","f","f">>, <<"d","e","f","e","n","d","a","n","t">> >>

\* voice messages, texts, faxes from RingCentral should never be ignored
SafeguardRingCentral(r, subject, sender) ==
    IF r.kind = "raise" \/ r.category # "ignore" THEN r
    ELSE IF subject = None THEN Raise(NoneHasNoLower)
    ELSE IF ~AnyIn(message_terms, Lower(subject)) THEN r
    ELSE IF sender = None THEN Raise(NoneHasNoLower)
    ELSE IF ~In(<<"r","i","n","g","c","e","n","t","r","a","l">>, Lower(sender)) THEN r
    ELSE Return("notify",
                <<"S","A","F","E","G","U","A","R","D"," ","O","V","E","R","R","I","D","E",":"," ","V","o","i","c","e","/","t","e","x","t","/","f","a","x"," ","m","e","s","s","a","g","e","s"," ","s","h","o","u","l","d"," ","n","o","t"," ","b","e"," ","i","g","n","o","r","e","d",".","\n","O","r","i","g","i","n","a","l"," ","r","e","a","s","o","n","i","n","g",":"," ">>
                    \o r.reasoning)

\* emails about cases or from attorneys should never be ignored
SafeguardLegal(r, subject) ==
    IF r.kind = "raise" \/ r.category # "ignore" THEN r
    ELSE IF subject = None THEN Raise(NoneHasNoLower)
    ELSE IF ~AnyIn(legal_terms, Lower(subject)) THEN r
    ELSE Return("respond",
                <<"S","A","F","E","G","U","A","R","D"," ","O","V","E","R","R","I","D","E",":"," ","L","e","g","a","l"," ","c","o","r","r","e","s","p","o","n","d","e","n","c","e"," ","s","h","o","u","l","d"," ","n","o","t"," ","b","e"," ","i","g","n","o","r","e","d",".","\n","O","r","i","g","i","n","a","l"," ","r","e","a","s","o","n","i","n","g",":"," ">>
                    \o r.reasoning)

\* emails about bills should never be ignored
SafeguardBill(r, subject) ==
    IF r.kind = "raise" \/ r.category # "ignore" THEN r
    ELSE IF subject = None THEN Raise(NoneHasNoLower)
    ELSE IF ~(In(<<"b","i","l","l">>, Lower(subject)) /\ In(<<"d","u","e">>, Lower(subject))) THEN r
    ELSE Return("notify",
                <<"S","A","F","E","G","U","A","R","D"," ","O","V","E","R","R","I","D","E",":"," ","B","i","l","l","s"," ","a","n","d"," ","p","a","y","m","e","n","t"," ","n","o","t","i","c","e","s"," ","s","h","o","u","l","d"," ","n","o","t"," ","b","e"," ","i","g","n","o","r","e","d",".","\n","O","r","i","g","i","n","a","l"," ","r","e","a","s","o","n","i","n","g",":"," ">>
                    \o r.reasoning)

\* the three safeguards, in the order of the code
ApplySafeguards(r, subject, sender) ==
    SafeguardBill(SafeguardLegal(SafeguardRingCentral(r, subject, sender), subject),
                  subject)

(***************************************************************************)
(* gmail_sync.triage_email around EmailTriageFlow.process_email            *)
(***************************************************************************)
ValidCategories == {"ignore", "notify", "respond"}

\* mutant: "respond" is missing from the list of valid categories
CheckCategory_NoRespond(category, reasoning) ==
    IF category \notin {"ignore", "notify"}
    THEN Return("notify",
                reasoning \o <<"\n","[","S","Y","S","T","E","M",":"," ","I","n","v","a","l","i","d"," ","c","a","t","e","g","o","r","y"," ","d","e","t","e","c","t","e","d",","," ","d","e","f","a","u","l","t","i","n","g"," ","t","o"," ","'","n","o","t","i","f","y","'","]">>)
    ELSE Return(category, reasoning)

\* the double check of the category the flow returned
CheckCategory(category, reasoning) ==
    IF category \notin ValidCategories
    THEN Return("notify",
                reasoning \o <<"\n","[","S","Y","S","T","E","M",":"," ","I","n","v","a","l","i","d"," ","c","a","t","e","g","o","r","y"," ","d","e","t","e","c","t","e","d",","," ","d","e","f","a","u","l","t","i","n","g"," ","t","o"," ","'","n","o","t","i","f","y","'","]">>)
    ELSE Return(category, reasoning)

\* mutant: the handler lets the exception through
TriageFailed_Reraise(error) == Raise(error)

\* except Exception as e
TriageFailed(error) == Return("notify", <<"T","r","i","a","g","e"," ","f","a","i","l","e","d"," ","w","i","t","h"," ","e","r","r","o","r",":"," ">> \o error)

\* mutant: the reasoning is appended to the one already in the flow state
StoreTriage_Append(st, out) ==
    IF out.kind = "return"
    THEN [st EXCEPT !.triage_category = out.category,
                    !.triage_reasoning = @ \o out.reasoning]
    ELSE st

\* process_email stores the agent's result in the flow state
StoreTriage(st, out) ==
    IF out.kind = "return"
    THEN [st EXCEPT !.triage_category = out.category,
                    !.triage_reasoning = out.reasoning]
    ELSE st

\* what the wrapper returns for the outcome of the flow, st the state after it
WrapperResult(st, out) ==
    IF out.kind = "return"
    THEN CheckCategory(out.category, st.triage_reasoning)
    ELSE TriageFailed(out.error)

\* where the wrapper ends: an exception that leaves it ends fetch_emails' loop
PcAfter(r) == IF r.kind = "raise" THEN "raised" ELSE "done"

(***************************************************************************)
(* Inputs                                                                  *)
(***************************************************************************)
Subjects ==
    { None, <<>>,
      <<"Q","u","i","c","k"," ","q","u","e","s","t","i","o","n"," ","a","b","o","u","t"," ","m","y"," ","d","o","g","'","s"," ","i","n","s","u","r","a","n","c","e">>,
      <<"B","i","l","l","i","n","g"," ","q","u","e","s","t","i","o","n">>,
      <<"N","e","w"," ","V","o","i","c","e"," ","M","e","s","s","a","g","e"," ","f","r","o","m"," ","(","5","0","2",")"," ","5","5","5","-","0","1","0","0">>,
      <<"Y","o","u","r"," ","B","i","l","l"," ","i","s"," ","D","U","E">>,
      <<"B","i","l","l"," ","d","u","e",":"," ","E","s","t","a","t","e"," ","o","f"," ","S","m","i","t","h">>,
      <<"F","a","x",":"," ","b","i","l","l"," ","d","u","e"," ","f","o","r"," ","C","a","s","e"," ","1","2">>,
      <<"C","a","s","e"," ","N","o","."," ","2","4","-","1","1","9","3"," ","-"," ","f","i","l","i","n","g"," ","d","e","a","d","l","i","n","e">>,
      <<"N","o","t","i","c","e"," ","o","f"," ","H","e","a","r","i","n","g"," ","n","o","t","i","f","i","c","a","t","i","o","n">>,
      <<"S","p","e","c","i","a","l"," ","o","f","f","e","r"," ","f","r","o","m"," ","y","o","u","r"," ","l","a","w","y","e","r">>,
      <<"P","a","y","m","e","n","t"," ","R","e","q","u","i","r","e","d">>,
      <<"N","e","w"," ","n","o","t","i","f","i","c","a","t","i","o","n",":"," ","3"," ","u","p","d","a","t","e","s">>,
      <<"2","0","%"," ","o","f","f"," ","y","o","u","r"," ","n","e","x","t"," ","v","i","s","i","t","!">> }

Senders ==
    { None, <<>>, <<"J","a","n","e"," ","D","o","e"," ","<","j","a","n","e","d","o","e","@","g","m","a","i","l",".","c","o","m",">">>,
      <<"V","o","i","c","e","m","a","i","l"," ","<","s","e","r","v","i","c","e","@","R","i","n","g","C","e","n","t","r","a","l",".","c","o","m",">">>, <<"a","m","y","@","w","h","a","l","e","y","l","a","w","f","i","r","m",".","c","o","m">>,
      <<"n","o","r","e","p","l","y","@","s","k","o","o","l",".","c","o","m">> }

\* a body whose "view online" ends after the first BodyHead characters
LongBody == [i \in 1..(BodyHead - 5) |-> "x"] \o <<"V","i","e","w"," ","O","n","l","i","n","e">>

Bodies == { None, <<>>, <<"H","e","r","e"," ","i","s"," ","W","h","a","t"," ","Y","o","u"," ","M","i","s","s","e","d">>, LongBody }

\* the arguments of a call
Email(subject, body, sender) ==
    [kind |-> "call", subject |-> subject, body |-> body, sender |-> sender]

Emails == { Email(subject, body, sender) :
                subject \in Subjects, body \in Bodies, sender \in Senders }

\* _analyze_email_indicators reads its arguments only: its value on every
\* email of the model, computed once
Indicated ==
    [e \in Emails |-> AnalyzeEmailIndicators(e.subject, e.body, e.sender)]

\* result.raw of the crew
RawTexts ==
    { <<"i","g","n","o","r","e","\n","l","o","o","k","s"," ","l","i","k","e"," ","s","p","a","m">>, <<" ","R","e","s","p","o","n","d"," ","\n"," "," ","c","l","i","e","n","t"," ","a","s","k","s"," ","a"," ","q","u","e","s","t","i","o","n"," ">>,
      <<"N","O","T","I","F","Y">>, <<"\n","i","g","n","o","r","e","\n","n","e","w","s","l","e","t","t","e","r">>, <<"i","g","n","o","r","e","\n">>, <<"m","a","y","b","e"," ","i","g","n","o","r","e","\n","n","o","t"," ","s","u","r","e">>,
      <<>> }

\* str(e) of an exception raised by crew.kickoff
LLMErrors == { <<"R","e","q","u","e","s","t"," ","t","i","m","e","d"," ","o","u","t",".">>, <<"R","a","t","e"," ","l","i","m","i","t"," ","r","e","a","c","h","e","d">> }

(***************************************************************************)
(* State                                                                   *)
(***************************************************************************)
VARIABLES
    triaged,   \* number of emails handed to gmail_sync.triage_email so far
    pc,        \* "idle", "llm" (inside crew.kickoff), "done", or "raised" when
               \* the call raised, which ends the loop of fetch_emails
    call,      \* arguments of the current or last gmail_sync.triage_email call
    state,     \* email_triage_flow.state, shared by all calls
    pre,       \* result of _analyze_email_indicators in this call
    llm,       \* outcome of crew.kickoff in this call
    parsed,    \* (category, reasoning) parsed from result.raw in this call
    agentOut,  \* outcome of EmailTriageAgent.triage_email in this call
    ret,       \* outcome of gmail_sync.triage_email
    emails,    \* the rows of the emails table, in order of insertion (id = index)
    email_sections, \* the rows of the email_sections table, in order of insertion
    sync,      \* the gmail_sync process: position, fetched emails, counters
    proc,      \* the process_emails processes: position, selected emails, chunks
    errors,    \* number of database and API calls that have raised so far
    split,     \* the last call of split_into_chunks on its own: arguments, result
    loops      \* the polling loops: position, interval, outcome of the iteration

triageVars == <<triaged, pc, call, state, pre, llm, parsed, agentOut, ret>>
storeVars == <<emails, email_sections, sync, proc, errors>>
scriptVars == <<split, loops>>
vars == <<triaged, pc, call, state, pre, llm, parsed, agentOut, ret,
          emails, email_sections, sync, proc, errors, split, loops>>

\* the scripts that poll: continuous_sync.main and process_emails.run_processing_loop
Loops == {"continuous_sync", "run_processing_loop"}

\* a polling script before its loop is entered
LoopStart ==
    [pc |-> "start", interval |-> 0, outcome |-> "none", iterations |-> 0,
     exit |-> "none"]

\* the processes that run process_emails.py: the interval loop and a --once run
Processors == {"loop", "once"}

\* gmail_sync before its first run
SyncIdle ==
    [pc |-> "idle", reprocess_all |-> FALSE, emails |-> <<>>,
     k |-> 0, success_count |-> 0, skip_count |-> 0, fail_count |-> 0,
     ignored_count |-> 0, updated_count |-> 0, runs |-> 0, result |-> <<>>]

\* a processor outside process_pending_emails
ProcessorIdle ==
    [pc |-> "idle", pending |-> <<>>, chunks |-> <<>>, i |-> 0, runs |-> 0]

\* no value yet in this call
Nothing == [kind |-> "nothing"]

\* EmailTriageState()
EmailTriageState ==
    [email_subject |-> <<>>, email_body |-> <<>>, email_sender |-> <<>>,
     triage_category |-> "notify", triage_reasoning |-> <<>>]

\* the tables, the processes and the triage flow before any run
InitPipeline ==
    /\ emails = <<>>
    /\ email_sections = <<>>
    /\ sync = SyncIdle
    /\ proc = [p \in Processors |-> ProcessorIdle]
    /\ errors = 0
    /\ loops = [l \in Loops |-> LoopStart]
    /\ triaged = 0
    /\ pc = "idle"
    /\ call = Nothing
    /\ state = EmailTriageState
    /\ pre = Nothing
    /\ llm = Nothing
    /\ parsed = Nothing
    /\ agentOut = Nothing
    /\ ret = Nothing

Init ==
    /\ InitPipeline
    /\ split = Nothing

(***************************************************************************)
(* Operations                                                              *)
(***************************************************************************)
\* gmail_sync.triage_email(subject, body, sender) up to the return of the
\* high-confidence case or to the call of crew.kickoff
TriageEmail(subject, body, sender) ==
    /\ pc \in {"idle", "done"}
    /\ triaged < MaxEmails
    /\ triaged' = triaged + 1
    /\ call' = Email(subject, body, sender)
    /\ llm' = Nothing
    /\ parsed' = Nothing
    /\ UNCHANGED <<storeVars, scriptVars>>
    /\ IF body = None
       THEN \* body[:500] raises before the flow state is touched
            /\ pc' = "raised"
            /\ ret' = Raise(NoneNotSubscriptable)
            /\ pre' = Nothing
            /\ agentOut' = Nothing
            /\ UNCHANGED state
       ELSE LET st  == [state EXCEPT !.email_subject = subject,
                                     !.email_body = body,
                                     !.email_sender = sender]
                ind == Indicated[Email(st.email_subject, st.email_body,
                                       st.email_sender)]
            IN  /\ pre' = ind
                /\ IF SkipsAgent(ind)
                   THEN /\ agentOut' = AutomaticResult(ind)
                        /\ state' = StoreTriage(st, agentOut')
                        /\ ret' = WrapperResult(state', agentOut')
                        /\ pc' = PcAfter(ret')
                   ELSE /\ agentOut' = Nothing
                        /\ state' = st
                        /\ ret' = Nothing
                        /\ pc' = "llm"

\* crew.kickoff returns result.raw = raw; parsing, safeguards, the flow's
\* state update and the wrapper's return follow
CrewReturns(raw) ==
    /\ pc = "llm"
    /\ llm' = [kind |-> "text", raw |-> raw]
    /\ parsed' = ParseResult(raw)
    /\ agentOut' = ApplySafeguards(parsed', state.email_subject, state.email_sender)
    /\ state' = StoreTriage(state, agentOut')
    /\ ret' = WrapperResult(state', agentOut')
    /\ pc' = PcAfter(ret')
    /\ UNCHANGED <<triaged, call, pre>>
    /\ UNCHANGED <<storeVars, scriptVars>>

\* crew.kickoff raises; the exception leaves triage_email and process_email
\* and is caught by the wrapper
CrewRaises(error) ==
    /\ pc = "llm"
    /\ llm' = [kind |-> "error", error |-> error]
    /\ agentOut' = Raise(error)
    /\ state' = StoreTriage(state, agentOut')
    /\ ret' = WrapperResult(state', agentOut')
    /\ pc' = PcAfter(ret')
    /\ UNCHANGED <<triaged, call, pre, parsed>>
    /\ UNCHANGED <<storeVars, scriptVars>>

Next ==
    \/ \E subject \in Subjects, body \in Bodies, sender \in Senders :
           TriageEmail(subject, body, sender)
    \/ \E raw \in RawTexts : CrewReturns(raw)
    \/ \E error \in LLMErrors : CrewRaises(error)

Spec == Init /\ [][Next]_vars

(***************************************************************************)
(* gmail_sync: fetch_emails and store_emails                               *)
(***************************************************************************)
MaxRuns == 2
MaxProcessorRuns == 2
MaxErrors == 2
ReasoningLimit == 1000
ChunkSize == 2000

\* the Message-IDs of the mailbox
MessageIds == {"a@mail", "b@mail"}

\* a body of three words of 699 characters
LongText == [i \in 1..2100 |-> IF i % 700 = 0 THEN " " ELSE "w"]

\* get_email_body of each message
MessageBody ==
    [m \in MessageIds |->
        IF m = "a@mail" THEN <<"P","l","e","a","s","e"," "," ","c","a","l","l"," ","m","e"," ","b","a","c","k",".","\n","T","h","a","n","k","s">> ELSE LongText]

\* what one search of the mailbox returns: one message, two messages, and two
\* messages that carry the same Message-ID
Searches == { <<"a@mail">>, <<"a@mail", "b@mail">>, <<"a@mail", "a@mail">> }

\* a reasoning longer than the stored limit
LongReasoning == [i \in 1..(ReasoningLimit + 5) |-> IF i % 10 = 0 THEN " " ELSE "r"]

\* results of gmail_sync.triage_email for a fetched message
TriageOutcomes ==
    { Return("ignore", <<"A","u","t","o","m","a","t","i","c"," ","c","a","t","e","g","o","r","i","z","a","t","i","o","n",":"," ","M","a","r","k","e","t","i","n","g"," ","e","m","a","i","l">>),
      Return("notify", LongReasoning) }

\* outcome of one call to the database or to the embeddings API
Outcomes == {"ok", "error"}

\* a call with this outcome is made: at most MaxErrors calls raise
CallMade(outcome) ==
    IF outcome = "error"
    THEN errors < MaxErrors /\ errors' = errors + 1
    ELSE errors' = errors

\* mutant: the reasoning is stored whole
Truncated_Whole(reasoning) == reasoning

\* email["triage_reasoning"][:1000]
Truncated(reasoning) == Take(reasoning, ReasoningLimit)

\* the gmail_id values read from the emails table; empty when the read failed
ExistingEmails(read) ==
    IF read = "ok" THEN { emails[i].gmail_id : i \in 1..Len(emails) } ELSE {}

\* mutant: a message already in the database is never skipped
SkipsImported_Never(reprocess_all, message_id, existing_emails) == FALSE

\* if not reprocess_all and message_id in existing_emails: continue
SkipsImported(reprocess_all, message_id, existing_emails) ==
    ~reprocess_all /\ message_id \in existing_emails

\* the email object built for a message
EmailObj(message_id, triage, existing_emails) ==
    [gmail_id |-> message_id, body |-> MessageBody[message_id],
     category |-> triage.category, triage_reasoning |-> triage.reasoning,
     reprocessed |-> message_id \in existing_emails]

\* the loop of fetch_emails over the messages found, triage[i] being the result
\* of triage_email for the i-th message
RECURSIVE FetchLoop(_, _, _, _)
FetchLoop(messages, triage, existing_emails, reprocess_all) ==
    IF messages = <<>> THEN <<>>
    ELSE LET rest == FetchLoop(Tail(messages), Tail(triage), existing_emails,
                               reprocess_all)
         IN  IF SkipsImported(reprocess_all, Head(messages), existing_emails)
             THEN rest
             ELSE <<EmailObj(Head(messages), Head(triage), existing_emails)>> \o rest

\* fetch_emails, then the start of store_emails
FetchEmails(reprocess_all, messages, triage, read) ==
    /\ sync.pc = "idle"
    /\ sync.runs < MaxRuns
    /\ CallMade(read)
    /\ sync' = [SyncIdle EXCEPT
                  !.pc = "store", !.reprocess_all = reprocess_all,
                  !.emails = FetchLoop(messages, triage, ExistingEmails(read),
                                       reprocess_all),
                  !.k = 1, !.runs = sync.runs + 1]
    /\ UNCHANGED <<emails, email_sections, proc>>
    /\ UNCHANGED <<triageVars, scriptVars>>

\* fetch_emails(unread_only=True), store_emails(emails)
sync_gmail(messages, triage, read) ==
    FetchEmails(FALSE, messages, triage, read)

\* fetch_emails(limit=limit, unread_only=unread_only), store_emails(emails)
initial_import(messages, triage, read) ==
    FetchEmails(FALSE, messages, triage, read)

\* fetch_emails(unread_only=False, reprocess_all=True),
\* store_emails(emails, reprocess_all=True)
reprocess_all_emails(messages, triage, read) ==
    FetchEmails(TRUE, messages, triage, read)

\* mutant: an "ignore" result is skipped even when the email is reprocessed
SkipsIgnored_Always(email) == email.category = "ignore"

\* if email["category"] == "ignore" and not is_reprocessed
SkipsIgnored(email) == email.category = "ignore" /\ ~email.reprocessed

\* the table after update(...).eq("gmail_id", email["gmail_id"])
UpdateTriage(table, email) ==
    [i \in 1..Len(table) |->
        IF table[i].gmail_id = email.gmail_id
        THEN [table[i] EXCEPT !.category = email.category,
                              !.triage_reasoning = Truncated(email.triage_reasoning)]
        ELSE table[i]]

\* the row of insert(...)
NewRow(email) ==
    [gmail_id |-> email.gmail_id, body |-> email.body, category |-> email.category,
     triage_reasoning |-> Truncated(email.triage_reasoning),
     processing_status |-> "pending"]

\* one iteration of the loop of store_emails; db is the outcome of its call to
\* the database, "none" when the email is skipped without a call
StoreEmail(db) ==
    /\ sync.pc = "store"
    /\ sync.k <= Len(sync.emails)
    /\ LET email == sync.emails[sync.k]
           next  == [sync EXCEPT !.k = @ + 1]
       IN  IF SkipsIgnored(email)
           THEN /\ db = "none"
                /\ sync' = [next EXCEPT !.ignored_count = @ + 1]
                /\ UNCHANGED <<emails, errors>>
           ELSE /\ db \in Outcomes
                /\ CallMade(db)
                /\ IF db = "error"
                   THEN /\ sync' = [next EXCEPT !.fail_count = @ + 1]
                        /\ UNCHANGED emails
                   ELSE IF email.reprocessed
                   THEN /\ emails' = UpdateTriage(emails, email)
                        /\ IF \E i \in 1..Len(emails) :
                                  emails[i].gmail_id = email.gmail_id
                           THEN sync' = [next EXCEPT !.updated_count = @ + 1]
                           ELSE sync' = [next EXCEPT !.fail_count = @ + 1]
                   ELSE /\ emails' = Append(emails, NewRow(email))
                        /\ sync' = [next EXCEPT !.success_count = @ + 1]
    /\ UNCHANGED <<email_sections, proc>>
    /\ UNCHANGED <<triageVars, scriptVars>>

\* mutant: updated_count is returned whatever reprocess_all is
StoreReturns_AlwaysFive ==
    /\ sync.pc = "store"
    /\ sync.k > Len(sync.emails)
    /\ sync' = [SyncIdle EXCEPT
                  !.reprocess_all = sync.reprocess_all,
                  !.runs = sync.runs,
                  !.result = <<sync.success_count, sync.skip_count,
                               sync.fail_count, sync.ignored_count,
                               sync.updated_count>>]
    /\ UNCHANGED <<emails, email_sections, proc, errors>>
    /\ UNCHANGED <<triageVars, scriptVars>>

\* the return of store_emails
StoreReturns ==
    /\ sync.pc = "store"
    /\ sync.k > Len(sync.emails)
    /\ sync' = [SyncIdle EXCEPT
                  !.reprocess_all = sync.reprocess_all,
                  !.runs = sync.runs,
                  !.result = IF sync.reprocess_all
                             THEN <<sync.success_count, sync.skip_count,
                                    sync.fail_count, sync.ignored_count,
                                    sync.updated_count>>
                             ELSE <<sync.success_count, sync.skip_count,
                                    sync.fail_count, sync.ignored_count>>]
    /\ UNCHANGED <<emails, email_sections, proc, errors>>
    /\ UNCHANGED <<triageVars, scriptVars>>

(***************************************************************************)
(* process_emails                                                          *)
(***************************************************************************)
\* text.split(): the words of text from position i on
RECURSIVE WordsFrom(_, _)
WordsFrom(text, i) ==
    IF \A j \in i..Len(text) : text[j] \in Whitespace THEN <<>>
    ELSE LET b == CHOOSE j \in i..Len(text) :
                      /\ text[j] \notin Whitespace
                      /\ \A h \in i..(j - 1) : text[h] \in Whitespace
             e == CHOOSE j \in b..Len(text) :
                      /\ j = Len(text) \/ text[j + 1] \in Whitespace
                      /\ \A h \in b..j : text[h] \notin Whitespace
         IN  <<SubSeq(text, b, e)>> \o WordsFrom(text, e + 1)

\* " ".join(words)
RECURSIVE Join(_)
Join(words) ==
    IF words = <<>> THEN <<>>
    ELSE IF Len(words) = 1 THEN words[1]
    ELSE words[1] \o <<" ">> \o Join(Tail(words))

\* the loop of split_into_chunks over the remaining words
RECURSIVE ChunkLoop(_, _, _, _, _)
ChunkLoop(words, chunks, current_chunk, current_length, chunk_size) ==
    IF words = <<>>
    THEN IF current_chunk # <<>> THEN Append(chunks, Join(current_chunk)) ELSE chunks
    ELSE LET word == Head(words)
         IN  IF current_length + Len(word) + 1 > chunk_size /\ current_chunk # <<>>
             THEN ChunkLoop(Tail(words), Append(chunks, Join(current_chunk)),
                            <<word>>, Len(word), chunk_size)
             ELSE ChunkLoop(Tail(words), chunks, Append(current_chunk, word),
                            current_length + Len(word) + 1, chunk_size)

\* a split_into_chunks that never closes a chunk
split_into_chunks_OneChunk(text, chunk_size) ==
    IF ~Truthy(text) THEN << <<>> >>
    ELSE IF WordsFrom(text, 1) = <<>> THEN <<>>
    ELSE << Join(WordsFrom(text, 1)) >>

split_into_chunks(text, chunk_size) ==
    IF ~Truthy(text) THEN << <<>> >>
    ELSE ChunkLoop(WordsFrom(text, 1), <<>>, <<>>, 0, chunk_size)

\* split_into_chunks(body) for the bodies that can be stored
Chunks ==
    [body \in { MessageBody[m] : m \in MessageIds } |->
        split_into_chunks(body, ChunkSize)]

\* mutant: every email that is not completed is selected again
PendingEmails_NotCompleted(table) ==
    SelectSeq([i \in 1..Len(table) |-> i],
              LAMBDA i : table[i].processing_status # "completed")

\* select("*").eq("processing_status", "pending"): the ids of the pending rows
PendingEmails(table) ==
    SelectSeq([i \in 1..Len(table) |-> i],
              LAMBDA i : table[i].processing_status = "pending")

\* the processor after the email at the head of its list: the next email, or
\* the return of process_pending_emails
NextEmail(p) ==
    IF Len(p.pending) > 1
    THEN [p EXCEPT !.pc = "mark", !.pending = Tail(@), !.chunks = <<>>, !.i = 0]
    ELSE [p EXCEPT !.pc = "idle", !.pending = <<>>, !.chunks = <<>>, !.i = 0]

\* the calls of process_pending_emails a process makes: one with --once, one
\* per interval in run_processing_loop
ProcessorRuns(p) == IF p = "once" THEN 1 ELSE MaxProcessorRuns

\* the start of process_pending_emails: the select of the pending emails
SelectPending(p, db) ==
    /\ proc[p].pc = "idle"
    /\ proc[p].runs < ProcessorRuns(p)
    /\ CallMade(db)
    /\ LET pending == IF db = "ok" THEN PendingEmails(emails) ELSE <<>>
       IN  proc' = [proc EXCEPT ![p] =
                       [@ EXCEPT !.runs = @ + 1, !.pending = pending,
                                 !.pc = IF pending = <<>> THEN "idle" ELSE "mark"]]
    /\ UNCHANGED <<emails, email_sections, sync>>
    /\ UNCHANGED <<triageVars, scriptVars>>

\* update({"processing_status": "processing"}), then split_into_chunks(body)
MarkProcessing(p, db) ==
    /\ proc[p].pc = "mark"
    /\ CallMade(db)
    /\ LET email_id == Head(proc[p].pending)
       IN  IF db = "ok"
           THEN /\ emails' = [emails EXCEPT ![email_id].processing_status = "processing"]
                /\ LET chunks == Chunks[emails[email_id].body]
                   IN  proc' = [proc EXCEPT ![p] =
                                   [@ EXCEPT !.chunks = chunks, !.i = 1,
                                             !.pc = IF chunks = <<>> THEN "complete"
                                                    ELSE "chunk"]]
           ELSE /\ proc' = [proc EXCEPT ![p].pc = "failed"]
                /\ UNCHANGED emails
    /\ UNCHANGED <<email_sections, sync>>
    /\ UNCHANGED <<triageVars, scriptVars>>

\* one iteration of the loop over the chunks: the embedding of the chunk and
\* the insert into email_sections; an exception of either is logged and dropped
ProcessChunk(p, api) ==
    /\ proc[p].pc = "chunk"
    /\ CallMade(api)
    /\ LET email_id == Head(proc[p].pending)
           i        == proc[p].i
       IN  /\ IF api = "ok"
              THEN email_sections' =
                       Append(email_sections,
                              [email_id |-> email_id,
                               section_content |-> proc[p].chunks[i],
                               section_order |-> i])
              ELSE UNCHANGED email_sections
           /\ proc' = [proc EXCEPT ![p] =
                          [@ EXCEPT !.i = i + 1,
                                    !.pc = IF i = Len(proc[p].chunks) THEN "complete"
                                           ELSE "chunk"]]
    /\ UNCHANGED <<emails, sync>>
    /\ UNCHANGED <<triageVars, scriptVars>>

\* update({"processing_status": "completed"})
MarkCompleted(p, db) ==
    /\ proc[p].pc = "complete"
    /\ CallMade(db)
    /\ LET email_id == Head(proc[p].pending)
       IN  IF db = "ok"
           THEN /\ emails' = [emails EXCEPT ![email_id].processing_status = "completed"]
                /\ proc' = [proc EXCEPT ![p] = NextEmail(@)]
           ELSE /\ proc' = [proc EXCEPT ![p].pc = "failed"]
                /\ UNCHANGED emails
    /\ UNCHANGED <<email_sections, sync>>
    /\ UNCHANGED <<triageVars, scriptVars>>

\* the handler of the per-email try: update({"processing_status": "failed"});
\* an exception of this update ends process_pending_emails
MarkFailed(p, db) ==
    /\ proc[p].pc = "failed"
    /\ CallMade(db)
    /\ LET email_id == Head(proc[p].pending)
       IN  IF db = "ok"
           THEN /\ emails' = [emails EXCEPT ![email_id].processing_status = "failed"]
                /\ proc' = [proc EXCEPT ![p] = NextEmail(@)]
           ELSE /\ proc' = [proc EXCEPT ![p] =
                               [@ EXCEPT !.pc = "idle", !.pending = <<>>,
                                         !.chunks = <<>>, !.i = 0]]
                /\ UNCHANGED emails
    /\ UNCHANGED <<email_sections, sync>>
    /\ UNCHANGED <<triageVars, scriptVars>>

\* the runs of gmail_sync.py and of one processor, interleaved at each call to
\* the database
NextStore ==
    \/ \E messages \in Searches, read \in Outcomes :
         \E triage \in [1..Len(messages) -> TriageOutcomes] :
            \/ sync_gmail(messages, triage, read)
            \/ initial_import(messages, triage, read)
            \/ reprocess_all_emails(messages, triage, read)
    \/ \E db \in Outcomes \cup {"none"} : StoreEmail(db)
    \/ StoreReturns
    \/ \E db \in Outcomes : SelectPending("loop", db)
    \/ \E db \in Outcomes : MarkProcessing("loop", db)
    \/ \E api \in Outcomes : ProcessChunk("loop", api)
    \/ \E db \in Outcomes : MarkCompleted("loop", db)
    \/ \E db \in Outcomes : MarkFailed("loop", db)

SpecStore == Init /\ [][NextStore]_vars

\* the runs of sync_gmail and of two processors, the interval loop and a
\* --once run, interleaved at each call to the database; every call
\* succeeds here, so that no except branch is taken
NextInterleaved ==
    \/ \E messages \in Searches :
         \E triage \in [1..Len(messages) -> TriageOutcomes] :
            sync_gmail(messages, triage, "ok")
    \/ \E db \in {"ok", "none"} : StoreEmail(db)
    \/ StoreReturns
    \/ \E p \in Processors :
         \/ SelectPending(p, "ok")
         \/ MarkProcessing(p, "ok")
         \/ ProcessChunk(p, "ok")
         \/ MarkCompleted(p, "ok")

SpecInterleaved == Init /\ [][NextInterleaved]_vars

(***************************************************************************)
(* split_into_chunks on its own                                            *)
(***************************************************************************)
MaxTextLen == 8
MaxChunkSize == 4

\* a word character, the separator and a line break
Characters == {"w", " ", "\n"}

\* the texts of at most MaxTextLen characters
Texts == UNION { [1..n -> Characters] : n \in 0..MaxTextLen }

\* a call of split_into_chunks about to be made, with chunk_size >= 1
InitChunks ==
    /\ InitPipeline
    /\ split \in [kind : {"call"}, text : Texts, chunk_size : 1..MaxChunkSize]

\* split_into_chunks(text, chunk_size)
SplitText ==
    /\ split.kind = "call"
    /\ split' = [kind |-> "chunks", text |-> split.text,
                 chunk_size |-> split.chunk_size,
                 chunks |-> split_into_chunks(split.text, split.chunk_size)]
    /\ UNCHANGED <<triageVars, storeVars, loops>>

NextChunks == SplitText

SpecChunks == InitChunks /\ [][NextChunks]_vars

(***************************************************************************)
(* streamlit-email-inbox                                                   *)
(***************************************************************************)
\* the "Mark as Done" button of the detail view of the email with this id,
\* shown while the category is not "done": update_email_category(id, "done")
MarkDone(email_id, db) ==
    /\ email_id \in 1..Len(emails)
    /\ emails[email_id].category # "done"
    /\ CallMade(db)
    /\ emails' = IF db = "ok" THEN [emails EXCEPT ![email_id].category = "done"]
                 ELSE emails
    /\ UNCHANGED <<email_sections, sync, proc>>
    /\ UNCHANGED <<triageVars, scriptVars>>

\* the runs of gmail_sync and of the processor interleaved with the inbox;
\* every call succeeds here, so that no except branch is taken
NextInbox ==
    \/ \E messages \in Searches :
         \E triage \in [1..Len(messages) -> TriageOutcomes] :
            \/ sync_gmail(messages, triage, "ok")
            \/ initial_import(messages, triage, "ok")
            \/ reprocess_all_emails(messages, triage, "ok")
    \/ \E db \in {"ok", "none"} : StoreEmail(db)
    \/ StoreReturns
    \/ SelectPending("loop", "ok")
    \/ MarkProcessing("loop", "ok")
    \/ ProcessChunk("loop", "ok")
    \/ MarkCompleted("loop", "ok")
    \/ \E email_id \in 1..Len(emails) : MarkDone(email_id, "ok")

SpecInbox == Init /\ [][NextInbox]_vars

(***************************************************************************)
(* The polling loops                                                       *)
(***************************************************************************)
MaxIterations == 2

\* interval of continuous_sync.main, in seconds
SyncInterval == 900

\* the default of --interval of process_emails.py, in seconds
DefaultInterval == 60

\* the intervals a loop can be started with: the one of continuous_sync is
\* fixed, --interval of process_emails.py is any int
Intervals(l) ==
    IF l = "continuous_sync" THEN {SyncInterval}
    ELSE {DefaultInterval, 0, -1}

\* how one iteration can end: gmail_sync.py exits with 0, exits with another
\* code or cannot be started; process_pending_emails returns or raises
IterationOutcomes(l) ==
    IF l = "continuous_sync" THEN {"ok", "nonzero", "not_started"}
    ELSE {"ok", "raised"}

\* the outcomes of a failed iteration
Failed == {"nonzero", "not_started", "raised"}

\* what ends a process from outside: SIGTERM (handle_sigterm calls sys.exit
\* in continuous_sync, the default action ends process_emails) and Ctrl+C
Signals == {"SIGTERM", "KeyboardInterrupt"}

\* the script is started and enters its while True
StartLoop(l, interval) ==
    /\ loops[l].pc = "start"
    /\ interval \in Intervals(l)
    /\ loops' = [loops EXCEPT ![l] = [@ EXCEPT !.pc = "run", !.interval = interval]]
    /\ UNCHANGED <<triageVars, storeVars, split>>

\* mutant: a failed iteration ends the loop
Iterate_FailureEnds(l, outcome) ==
    /\ loops[l].pc = "run"
    /\ outcome \in IterationOutcomes(l)
    /\ loops' = [loops EXCEPT ![l] =
                    IF outcome \in Failed
                    THEN [@ EXCEPT !.pc = "exited", !.outcome = outcome,
                                   !.exit = "Exception"]
                    ELSE [@ EXCEPT !.pc = "sleep", !.outcome = outcome]]
    /\ UNCHANGED <<triageVars, storeVars, split>>

\* one iteration: run_gmail_sync(), or process_pending_emails() inside the
\* try of the loop; an exception is printed and the loop goes on to sleep.
\* iterations counts the iterations up to MaxIterations and stays there.
Iterate(l, outcome) ==
    /\ loops[l].pc = "run"
    /\ outcome \in IterationOutcomes(l)
    /\ loops' = [loops EXCEPT ![l] =
                    [@ EXCEPT !.pc = "sleep", !.outcome = outcome,
                              !.iterations = IF @ < MaxIterations THEN @ + 1 ELSE @]]
    /\ UNCHANGED <<triageVars, storeVars, split>>

\* time.sleep(interval), which raises ValueError for a negative interval:
\* the sleep is outside the try of run_processing_loop, and continuous_sync.main
\* leaves its loop on any Exception
Sleep(l) ==
    /\ loops[l].pc = "sleep"
    /\ loops' = [loops EXCEPT ![l] =
                    IF loops[l].interval < 0
                    THEN [@ EXCEPT !.pc = "exited", !.exit = "ValueError"]
                    ELSE [@ EXCEPT !.pc = "run"]]
    /\ UNCHANGED <<triageVars, storeVars, split>>

\* SIGTERM or Ctrl+C reaches the process
Signal(l, sig) ==
    /\ loops[l].pc # "exited"
    /\ sig \in Signals
    /\ loops' = [loops EXCEPT ![l] = [@ EXCEPT !.pc = "exited", !.exit = sig]]
    /\ UNCHANGED <<triageVars, storeVars, split>>

NextLoops ==
    \E l \in Loops :
        \/ \E interval \in Intervals(l) : StartLoop(l, interval)
        \/ \E outcome \in IterationOutcomes(l) : Iterate(l, outcome)
        \/ Sleep(l)
        \/ \E sig \in Signals : Signal(l, sig)

\* a process that can take a step of its own takes it; signals need not come
SpecLoops ==
    /\ Init
    /\ [][NextLoops]_vars
    /\ \A l \in Loops :
          /\ WF_vars(\E interval \in Intervals(l) : StartLoop(l, interval))
          /\ WF_vars(\E outcome \in IterationOutcomes(l) : Iterate(l, outcome))
          /\ WF_vars(Sleep(l))

(***************************************************************************)
(* Properties                                                              *)
(***************************************************************************)
\* the call in progress or just finished was given str arguments or None
Called == call.kind = "call"

\* C1: whenever triage_email returns (EmailTriageAgent.triage_email to the
\* flow, gmail_sync.triage_email to its caller), the returned category is one
\* of "ignore", "notify", "respond", and never "done".
C1_CategoryIsOneOfThree ==
    /\ agentOut.kind = "return" => agentOut.category \in {"ignore", "notify", "respond"}
    /\ ret.kind = "return" => ret.category \in {"ignore", "notify", "respond"}

\* C1 witness: the crew answered with a first line that is no category, and
\* triage_email has returned.
C1_Witness ==
    /\ pc = "done"
    /\ llm.kind = "text"
    /\ llm.raw = <<"m","a","y","b","e"," ","i","g","n","o","r","e","\n","n","o","t"," ","s","u","r","e">>
    /\ agentOut.kind = "return"
    /\ ret.kind = "return"

\* C2: an exception raised by crew.kickoff never reaches the caller of
\* gmail_sync.triage_email: the call returns "notify" with a reasoning that
\* contains the error text.
C2_LLMErrorIsCaught ==
    llm.kind = "error" =>
        /\ pc = "done"
        /\ ret.kind = "return"
        /\ ret.category = "notify"
        /\ In(llm.error, ret.reasoning)

\* C2 witness: crew.kickoff raised and the call is over.
C2_Witness == llm.kind = "error" /\ pc # "llm" /\ agentOut.kind = "raise"

\* the message types named by C3
C3_Terms == << <<"v","o","i","c","e"," ","m","e","s","s","a","g","e">>, <<"t","e","x","t"," ","m","e","s","s","a","g","e">>, <<"f","a","x">> >>
C3_Subjects == { s \in Subjects \ {None} : AnyIn(C3_Terms, Lower(s)) }
C3_Senders == { s \in Senders \ {None} : In(<<"r","i","n","g","c","e","n","t","r","a","l">>, Lower(s)) }

\* C3: when the sender contains "ringcentral" (in any case) and the subject
\* contains "voice message", "text message" or "fax", every category that
\* triage_email returns is "notify".
C3_RingCentralMessageNotifies ==
    (Called /\ call.subject \in C3_Subjects /\ call.sender \in C3_Senders) =>
        /\ agentOut.kind = "return" => agentOut.category = "notify"
        /\ ret.kind = "return" => ret.category = "notify"

\* C3 witness: such an email has been triaged and "notify" returned.
C3_Witness ==
    /\ Called /\ call.subject \in C3_Subjects /\ call.sender \in C3_Senders
    /\ pc = "done" /\ ret.kind = "return" /\ ret.category = "notify"

\* the legal keywords named by C4
C4_Keywords ==
    << <<"c","a","s","e">>, <<"c","o","u","r","t">>, <<"a","t","t","o","r","n","e","y">>, <<"p","l","a","i","n","t","i","f","f">>, <<"d","e","f","e","n","d","a","n","t">>, <<"e","s","t","a","t","e">>,
       <<"v",".">>, <<"v","s",".">>, <<"f","i","l","i","n","g">>, <<"l","a","w","y","e","r">>, <<"l","e","g","a","l">>, <<"h","e","a","r","i","n","g">> >>
C4_Subjects == { s \in Subjects \ {None} : AnyIn(C4_Keywords, Lower(s)) }

\* C4: when the subject contains a legal keyword, no category that
\* triage_email returns is "ignore".
C4_LegalSubjectNeverIgnored ==
    (Called /\ call.subject \in C4_Subjects) =>
        /\ agentOut.kind = "return" => agentOut.category # "ignore"
        /\ ret.kind = "return" => ret.category # "ignore"

\* C4 witness: a subject with a legal keyword and the platform signal
\* "notification" has been triaged.
C4_Witness ==
    /\ Called /\ call.subject \in C4_Subjects
    /\ In(<<"n","o","t","i","f","i","c","a","t","i","o","n">>, Lower(call.subject))
    /\ pc = "done" /\ ret.kind = "return" /\ ret.category = "respond"

C5_Subjects ==
    { s \in Subjects \ {None} : In(<<"b","i","l","l">>, Lower(s)) /\ In(<<"d","u","e">>, Lower(s)) }

\* C5: when the subject contains both "bill" and "due" (in any case), every
\* category that triage_email returns is "notify".
C5_BillDueNotifies ==
    (Called /\ call.subject \in C5_Subjects) =>
        /\ agentOut.kind = "return" => agentOut.category = "notify"
        /\ ret.kind = "return" => ret.category = "notify"

\* C5 witness: a bill/due subject that also has a legal keyword, from a team
\* domain, has been triaged as "notify".
C5_Witness ==
    /\ Called /\ call.subject \in C5_Subjects /\ call.subject \in C4_Subjects
    /\ call.sender = <<"a","m","y","@","w","h","a","l","e","y","l","a","w","f","i","r","m",".","c","o","m">>
    /\ pc = "done" /\ ret.kind = "return" /\ ret.category = "notify"

\* crew.kickoff has been called in this call
LLMCalled == pc = "llm" \/ llm.kind # "nothing"

\* C6: the LLM is called exactly when the matcher returned no category; a
\* matcher result with a category has confidence >= 0.9 and is returned at once
\* as (category, "Automatic categorization: " + reason), without an LLM call.
C6_LLMOnlyWhenInconclusive ==
    pre.kind = "indication" =>
        /\ LLMCalled <=> pre.category = NoCategory
        /\ pre.category # NoCategory =>
              /\ pre.confidence >= 90
              /\ agentOut = Return(pre.category, AutomaticPrefix \o pre.reasoning)
              /\ ret = agentOut

\* C6 witness: an "ignore" match of confidence 0.9 was returned directly.
C6_Witness ==
    /\ pre.kind = "indication" /\ pre.category = "ignore" /\ pre.confidence = 90
    /\ pc = "done" /\ ~LLMCalled /\ ret.category = "ignore"

\* what the path taken in this call produced before any safeguard: the
\* automatic result of the fast path, or the parsed answer of the LLM
PathResult == IF SkipsAgent(pre) THEN AutomaticResult(pre) ELSE parsed

C8_OnlyIgnoreIsOverridden ==
    (parsed.kind = "return" /\ parsed.category \in {"notify", "respond"}) =>
        agentOut = parsed /\ ret = parsed

\* C8 witness: the LLM answered "respond" for an email without subject, and
\* the call is over.
C8_Witness ==
    /\ parsed.kind = "return" /\ parsed.category = "respond"
    /\ Called /\ call.subject = None
    /\ pc = "done"

\* position of the first newline of t, 0 when t has none
C9_FirstNewline(t) ==
    IF \E i \in 1..Len(t) : t[i] = "\n"
    THEN CHOOSE i \in 1..Len(t) : t[i] = "\n" /\ \A j \in 1..(i - 1) : t[j] # "\n"
    ELSE 0

C9_FirstLine(t) ==
    IF C9_FirstNewline(t) = 0 THEN t ELSE SubSeq(t, 1, C9_FirstNewline(t) - 1)

C9_Rest(t) == SubSeq(t, C9_FirstNewline(t) + 1, Len(t))

\* the category a first line names once trimmed and lower-cased, "none"
\* when it names no category
C9_Named(line) ==
    LET word == Strip(Lower(line))
    IN  IF word = <<"i","g","n","o","r","e">> THEN "ignore"
        ELSE IF word = <<"n","o","t","i","f","y">> THEN "notify"
        ELSE IF word = <<"r","e","s","p","o","n","d">> THEN "respond"
        ELSE "none"

\* C9 as stated: the LLM text itself is split on its first newline; a first
\* line that names a category gives that category, with the rest as reasoning
\* (compared up to surrounding whitespace) or "No reasoning provided" when
\* there is no second part; any other first line gives "notify" and a
\* reasoning saying that the category could not be determined.
C9_SplitOfTheRawText ==
    llm.kind = "text" =>
        LET t == llm.raw
        IN  IF C9_Named(C9_FirstLine(t)) # "none"
            THEN /\ parsed.category = C9_Named(C9_FirstLine(t))
                 /\ IF C9_FirstNewline(t) = 0
                    THEN parsed.reasoning = <<"N","o"," ","r","e","a","s","o","n","i","n","g"," ","p","r","o","v","i","d","e","d">>
                    ELSE Strip(parsed.reasoning) = Strip(C9_Rest(t))
            ELSE /\ parsed.category = "notify"
                 /\ In(<<"C","o","u","l","d"," ","n","o","t"," ","d","e","t","e","r","m","i","n","e"," ","e","x","a","c","t"," ","c","a","t","e","g","o","r","y">>, parsed.reasoning)

\* C9 amended: the LLM text is first trimmed and then split on its first
\* newline; a first line that, trimmed and lower-cased, names a category gives
\* that category, with the trimmed rest as reasoning or "No reasoning provided"
\* when the trimmed text has no second part; any other first line gives
\* "notify" and a reasoning saying that the category could not be determined.
C9_SplitOfTheTrimmedText ==
    llm.kind = "text" =>
        LET t == Strip(llm.raw)
        IN  IF C9_Named(C9_FirstLine(t)) # "none"
            THEN /\ parsed.category = C9_Named(C9_FirstLine(t))
                 /\ IF C9_FirstNewline(t) = 0
                    THEN parsed.reasoning = <<"N","o"," ","r","e","a","s","o","n","i","n","g"," ","p","r","o","v","i","d","e","d">>
                    ELSE parsed.reasoning = Strip(C9_Rest(t))
            ELSE /\ parsed.category = "notify"
                 /\ In(<<"C","o","u","l","d"," ","n","o","t"," ","d","e","t","e","r","m","i","n","e"," ","e","x","a","c","t"," ","c","a","t","e","g","o","r","y">>, parsed.reasoning)

\* C9 witness: an answer that starts with an empty line was parsed as the
\* category of its second line.
C9_Witness ==
    /\ llm.kind = "text" /\ llm.raw = <<"\n","i","g","n","o","r","e","\n","n","e","w","s","l","e","t","t","e","r">>
    /\ parsed = Return("ignore", <<"n","e","w","s","l","e","t","t","e","r">>)

\* the first of the six checks, in the order of C10, whose condition holds
\* for an email; 7 when none holds
C10_FirstCheck ==
    [e \in Emails |->
        LET subject_lower == IF Truthy(e.subject) THEN Lower(e.subject) ELSE <<>>
            body_lower    == IF Truthy(e.body) THEN Lower(e.body) ELSE <<>>
            sender_lower  == IF Truthy(e.sender) THEN Lower(e.sender) ELSE <<>>
            holds == << IsRingCentralMessage(subject_lower, sender_lower),
                        IsBill(subject_lower),
                        HasLegalIndicator(subject_lower),
                        is_team_member(sender_lower),
                        AnyTrue(platform_indicators(subject_lower, body_lower,
                                                    sender_lower)),
                        AnyTrue(marketing_indicators(subject_lower, body_lower)),
                        TRUE >>
        IN  FirstTrue(holds)]

\* category and confidence (in hundredths) of the six checks, then of no match
C10_Category == <<"notify", "notify", "respond", "respond", "ignore", "ignore", NoCategory>>
C10_Confidence == <<95, 95, 95, 95, 90, 90, 0>>

C11_TeamDomains == << <<"w","h","a","l","e","y","l","a","w","f","i","r","m",".","c","o","m">>, <<"f","i","l","e","v","i","n","e",".","c","o","m">>, <<"b","l","a","z","e","o",".","c","o","m">> >>
C11_TeamSenders == { s \in Senders \ {None} : AnyIn(C11_TeamDomains, Lower(s)) }
C11_PaymentSubjects ==
    { s \in Subjects \ {None} : In(<<"p","a","y","m","e","n","t"," ","r","e","q","u","i","r","e","d">>, Lower(s)) }

\* one of the six checks as C11 names them holds: voicemail gateway, bill and
\* due, legal keyword, team domain, platform signal, marketing signal
C11_StatedCheckHolds ==
    [e \in Emails |->
        LET subject_lower == IF Truthy(e.subject) THEN Lower(e.subject) ELSE <<>>
            body_lower    == IF Truthy(e.body) THEN Lower(e.body) ELSE <<>>
            sender_lower  == IF Truthy(e.sender) THEN Lower(e.sender) ELSE <<>>
        IN  \/ e.subject \in C3_Subjects /\ e.sender \in C3_Senders
            \/ e.subject \in C5_Subjects
            \/ e.subject \in C4_Subjects
            \/ e.sender \in C11_TeamSenders
            \/ AnyTrue(platform_indicators(subject_lower, body_lower, sender_lower))
            \/ AnyTrue(marketing_indicators(subject_lower, body_lower))]

\* C11 as stated: the matcher returns no category, with confidence 0, exactly
\* when none of the six checks (the bill check being "bill" and "due") holds;
\* otherwise it returns a category with confidence 0.95 or 0.9.
C11_NoneExactlyWhenNoStatedCheck ==
    pre.kind = "indication" =>
        IF C11_StatedCheckHolds[call]
        THEN pre.category \in ValidCategories /\ pre.confidence \in {95, 90}
        ELSE pre.category = NoCategory /\ pre.confidence = 0

\* C11 amended: the bill check holds when the subject contains "bill" and
\* "due", or contains "payment required"; the matcher returns (None, 0, "No
\* conclusive indicators found, need AI analysis") exactly when none of the
\* six checks holds, and otherwise a category with confidence 0.95 or 0.9.
C11_NoneExactlyWhenNoCheck ==
    pre.kind = "indication" =>
        IF C11_StatedCheckHolds[call] \/ call.subject \in C11_PaymentSubjects
        THEN pre.category \in ValidCategories /\ pre.confidence \in {95, 90}
        ELSE pre = Indication(NoCategory, 0,
                              <<"N","o"," ","c","o","n","c","l","u","s","i","v","e"," ","i","n","d","i","c","a","t","o","r","s"," ","f","o","u","n","d",","," ","n","e","e","d"," ","A","I"," ","a","n","a","l","y","s","i","s">>)

\* C11 witness: the matcher was given an email whose subject contains "payment
\* required" but not "bill" and "due", and returned "notify".
C11_Witness ==
    /\ pre.kind = "indication" /\ pre.category = "notify"
    /\ call.subject \in C11_PaymentSubjects
    /\ call.subject \notin C5_Subjects

\* the lowest index of a true flag, 0 when there is none
C13_Lowest(flags) ==
    IF \A i \in 1..Len(flags) : ~flags[i] THEN 0
    ELSE CHOOSE i \in 1..Len(flags) : flags[i] /\ \A j \in 1..(i - 1) : ~flags[j]

\* the number of true flags
C13_HowMany(flags) == Cardinality({ i \in 1..Len(flags) : flags[i] })

\* the platform signals of an email
C13_Platform(e) ==
    platform_indicators(IF Truthy(e.subject) THEN Lower(e.subject) ELSE <<>>,
                        IF Truthy(e.body) THEN Lower(e.body) ELSE <<>>,
                        IF Truthy(e.sender) THEN Lower(e.sender) ELSE <<>>)

\* for each email, the lowest index of a platform signal that holds, 0 when
\* one of the four checks before the platform check holds or no signal does
C13_LowestSignal ==
    [e \in Emails |->
        IF \/ e.subject \in C3_Subjects /\ e.sender \in C3_Senders
           \/ e.subject \in C5_Subjects
           \/ e.subject \in C11_PaymentSubjects
           \/ e.subject \in C4_Subjects
           \/ e.sender \in C11_TeamSenders
        THEN 0
        ELSE C13_Lowest(C13_Platform(e))]

\* for each email, the number of platform signals that hold
C13_Signals == [e \in Emails |-> C13_HowMany(C13_Platform(e))]

\* C13: when the platform-notification check decides the result, the result is
\* "ignore" with confidence 0.9 and the reason of the lowest-index signal that
\* holds, whatever later platform signals or marketing signals hold too.
C13_FirstPlatformSignalWins ==
    (pre.kind = "indication" /\ C13_LowestSignal[call] # 0) =>
        pre = Indication("ignore", 90, platform_reasons[C13_LowestSignal[call]])

\* C13 witness: the platform check decided an email for which several platform
\* signals and a marketing signal hold.
C13_Witness ==
    /\ pre.kind = "indication" /\ C13_LowestSignal[call] # 0
    /\ C13_Signals[call] >= 2
    /\ call.subject = <<"2","0","%"," ","o","f","f"," ","y","o","u","r"," ","n","e","x","t"," ","v","i","s","i","t","!">>
    /\ pre.category = "ignore"

\* a call in which the subject, the body or the sender is None or empty
C14_AbsentField ==
    /\ Called
    /\ \/ ~Truthy(call.subject) \/ ~Truthy(call.body) \/ ~Truthy(call.sender)

\* C14: when the subject, the body or the sender is None or empty, whatever
\* the LLM answers, classification does not raise: the agent's triage_email
\* returns, and gmail_sync.triage_email returns a (category, reasoning) with
\* one of the three categories.
C14_AbsentFieldsNeverRaise ==
    (C14_AbsentField /\ pc \in {"done", "raised"} /\ llm.kind # "error") =>
        /\ agentOut.kind = "return"
        /\ ret.kind = "return" /\ ret.category \in ValidCategories

\* what gmail_sync.triage_email returns for email c and LLM outcome l when the
\* flow state is the one of a new EmailTriageFlow
C18_Alone(c, l) ==
    LET st  == [EmailTriageState EXCEPT !.email_subject = c.subject,
                                        !.email_body = c.body,
                                        !.email_sender = c.sender]
        ind == Indicated[c]
        out == IF SkipsAgent(ind) THEN AutomaticResult(ind)
               ELSE IF l.kind = "text"
                    THEN ApplySafeguards(ParseResult(l.raw), c.subject, c.sender)
                    ELSE Raise(l.error)
    IN  WrapperResult(StoreTriage(st, out), out)

\* C18: the (category, reasoning) returned for an email is the one that the
\* same three inputs and the same LLM outcome give on a new flow state: it does
\* not depend on what earlier emails left in the shared EmailTriageFlow state.
C18_ResultDependsOnOwnInputs ==
    pc = "done" => ret = C18_Alone(call, llm)

\* C18 witness: the second email of a run has been classified while the flow
\* state still holds the category "ignore" of the first one.
C18_Witness ==
    /\ triaged = 2 /\ pc = "done" /\ llm.kind = "error"
    /\ state.triage_category = "ignore"
    /\ Len(state.triage_reasoning) > 0
    /\ ret.kind = "return" /\ ret.category = "notify"

\* the text every safeguard puts in front of the reasoning
C20_OverridePrefix == <<"S","A","F","E","G","U","A","R","D"," ","O","V","E","R","R","I","D","E">>

\* C20: on the LLM path no safeguard fires: whatever the LLM answers, the
\* returned reasoning does not start with "SAFEGUARD OVERRIDE", and an answer
\* parsed as "ignore" is returned as "ignore" with its reasoning.
C20_NoSafeguardFires ==
    (pc \in {"done", "raised"} /\ llm.kind = "text") =>
        /\ agentOut.kind = "return" =>
              Take(agentOut.reasoning, Len(C20_OverridePrefix)) # C20_OverridePrefix
        /\ ret.kind = "return" =>
              Take(ret.reasoning, Len(C20_OverridePrefix)) # C20_OverridePrefix
        /\ parsed.category = "ignore" =>
              /\ agentOut = parsed
              /\ ret = Return("ignore", parsed.reasoning)

\* the changes of processing_status that C15 names
C15_StatedTransitions ==
    { <<"pending", "processing">>, <<"processing", "completed">>,
      <<"processing", "failed">> }

\* in this step every new row starts at "pending" and every change of the
\* processing_status of a stored row is one of the given transitions
C15_Advances(transitions) ==
    \A i \in 1..Len(emails') :
        IF i > Len(emails)
        THEN emails'[i].processing_status = "pending"
        ELSE \/ emails'[i].processing_status = emails[i].processing_status
             \/ <<emails[i].processing_status, emails'[i].processing_status>>
                    \in transitions

\* C15 as stated: a stored email starts at "pending" and its processing_status
\* changes only from pending to processing, from processing to completed and
\* from processing to failed.
C15_OnlyStatedTransitions == [][C15_Advances(C15_StatedTransitions)]_vars

\* C15 amended: a stored email starts at "pending" and its processing_status
\* changes only from pending to processing, from processing to completed, from
\* processing to failed, and from pending to failed when the update to
\* "processing" raised; no email leaves completed or failed, none goes back to
\* pending.
C15_StatusAdvances ==
    [][C15_Advances(C15_StatedTransitions \cup { <<"pending", "failed">> })]_vars

\* C15 witness: after two runs of the processor one email is completed and
\* another one failed.
C15_Witness ==
    /\ proc["loop"].runs = 2 /\ proc["loop"].pc = "idle"
    /\ \E i, j \in 1..Len(emails) :
          /\ emails[i].processing_status = "completed"
          /\ emails[j].processing_status = "failed"

\* in this step no stored row gets another category or triage_reasoning
C16_TriageKept ==
    \A i \in 1..Len(emails) :
        /\ emails'[i].category = emails[i].category
        /\ emails'[i].triage_reasoning = emails[i].triage_reasoning

\* the first 1000 characters of a reasoning
C16_First1000(reasoning) ==
    IF Len(reasoning) <= 1000 THEN reasoning ELSE SubSeq(reasoning, 1, 1000)

\* C16 as stated: once a row is created, no run of sync_gmail, initial_import
\* or reprocess_all_emails writes another category or triage_reasoning to it.
C16_TriageSetOnce == [][C16_TriageKept]_vars

\* C16 amended: once a row is created, no run of sync_gmail or initial_import
\* writes another category or triage_reasoning to it; a run of
\* reprocess_all_emails does: it overwrites both, in every row with the
\* gmail_id of a fetched email, with the new result of triage.
C16_TriageRewrittenOnlyByReprocess ==
    [][~C16_TriageKept =>
          /\ sync.pc = "store" /\ sync.reprocess_all
          /\ \A i \in 1..Len(emails) :
                IF emails[i].gmail_id = sync.emails[sync.k].gmail_id
                THEN /\ emails'[i].category = sync.emails[sync.k].category
                     /\ emails'[i].triage_reasoning =
                            C16_First1000(sync.emails[sync.k].triage_reasoning)
                ELSE emails'[i] = emails[i]]_vars

\* C16 witness: a run of reprocess_all_emails has updated a row, which now has
\* the category "ignore".
C16_Witness ==
    /\ sync.pc = "store" /\ sync.reprocess_all /\ sync.updated_count >= 1
    /\ \E i \in 1..Len(emails) : emails[i].category = "ignore"

\* the number of emails among the first n fetched ones that are new and were
\* classified "ignore"
C17_Skipped(n) ==
    Cardinality({ j \in 1..n : /\ sync.emails[j].category = "ignore"
                               /\ ~sync.emails[j].reprocessed })

\* C17 as stated: no row of the emails table has the category "ignore", and
\* ignored_count is the number of emails skipped so far for being "ignore".
C17_NoIgnoreRow ==
    /\ \A i \in 1..Len(emails) : emails[i].category # "ignore"
    /\ sync.pc = "store" => sync.ignored_count = C17_Skipped(sync.k - 1)

\* C17 amended: no row is inserted with the category "ignore": a new email
\* classified "ignore" is skipped and counted in ignored_count; a row gets the
\* category "ignore" only by an update of reprocess_all_emails, which is not
\* counted in ignored_count.
C17_NoIgnoreRowInserted ==
    /\ [](sync.pc = "store" => sync.ignored_count = C17_Skipped(sync.k - 1))
    /\ [][/\ Len(emails') > Len(emails) => emails'[Len(emails')].category # "ignore"
          /\ \A i \in 1..Len(emails) :
                (emails'[i].category = "ignore" /\ emails[i].category # "ignore")
                    => /\ sync.reprocess_all
                       /\ sync'.updated_count = sync.updated_count + 1
                       /\ sync'.ignored_count = sync.ignored_count]_vars

\* C17 witness: in one run of reprocess_all_emails a stored email was updated
\* to "ignore" and a new email classified "ignore" was skipped and counted.
C17_Witness ==
    /\ sync.pc = "store" /\ sync.reprocess_all
    /\ sync.updated_count = 1 /\ sync.ignored_count = 1
    /\ \E i \in 1..Len(emails) : emails[i].category = "ignore"

\* C19: every stored triage_reasoning has at most 1000 characters and is a
\* prefix of the reasoning that triage returned with the stored category: the
\* first 1000 characters of it, or all of it when it is shorter.
C19_ReasoningTruncated ==
    \A i \in 1..Len(emails) :
        /\ Len(emails[i].triage_reasoning) <= 1000
        /\ \E t \in TriageOutcomes :
              /\ t.category = emails[i].category
              /\ emails[i].triage_reasoning =
                     SubSeq(t.reasoning, 1, Len(emails[i].triage_reasoning))
              /\ \/ Len(emails[i].triage_reasoning) = Len(t.reasoning)
                 \/ Len(emails[i].triage_reasoning) = 1000

\* C19 witness: a reasoning of more than 1000 characters was stored by an
\* insert and again by a reprocess update.
C19_Witness ==
    /\ sync.pc = "store" /\ sync.reprocess_all /\ sync.updated_count >= 1
    /\ sync.emails[1].category = "notify"
    /\ Len(sync.emails[1].triage_reasoning) > 1000
    /\ \E i \in 1..Len(emails) :
          /\ emails[i].gmail_id = sync.emails[1].gmail_id
          /\ emails[i].category = "notify"
          /\ Len(emails[i].triage_reasoning) = 1000

\* C21: while only sync_gmail or initial_import has run, no two rows of the
\* emails table have the same gmail_id.
C21_NoDuplicateGmailId ==
    (sync.runs = 1 /\ ~sync.reprocess_all) =>
        \A i, j \in 1..Len(emails) :
            emails[i].gmail_id = emails[j].gmail_id => i = j

\* the sum of the counters of a tuple that store_emails returns
C22_Sum(result) ==
    IF Len(result) = 4 THEN result[1] + result[2] + result[3] + result[4]
    ELSE result[1] + result[2] + result[3] + result[4] + result[5]

\* C22: store_emails counts every email of its list exactly once: after each
\* iteration success_count + fail_count + ignored_count + updated_count is the
\* number of emails handled so far and skip_count is 0; the counters it returns
\* add up to the length of the list, and updated_count is among them exactly
\* when reprocess_all is true.
C22_EveryEmailCountedOnce ==
    /\ [](sync.pc = "store" =>
            /\ sync.success_count + sync.fail_count + sync.ignored_count
                   + sync.updated_count = sync.k - 1
            /\ sync.skip_count = 0)
    /\ [][(sync.pc = "store" /\ sync'.pc = "idle") =>
            /\ Len(sync'.result) = IF sync.reprocess_all THEN 5 ELSE 4
            /\ C22_Sum(sync'.result) = Len(sync.emails)
            /\ sync'.result[2] = 0
            /\ sync.reprocess_all => sync'.result[5] = sync.updated_count]_vars

\* C22 witness: store_emails has returned from a list of two in which one
\* email was reprocessed and the other one was new and ignored.
C22_Witness ==
    /\ sync.pc = "idle" /\ Len(sync.result) = 5
    /\ sync.result[4] = 1 /\ sync.result[5] = 1


\* C23: once the process_pending_emails call that picked an email has
\* returned, the email is not left in "processing", whichever database update
\* or embedding call raised; a row left there is selected by no later call,
\* since they select "pending" rows only, and so never reaches "completed" or
\* "failed".
C23_NoneLeftProcessing ==
    proc["loop"].pc = "idle" =>
        \A i \in 1..Len(emails) : emails[i].processing_status # "processing"

\* the email_sections rows of an email, in order of insertion
C24_Sections(email_id) ==
    SelectSeq(email_sections, LAMBDA s : s.email_id = email_id)

\* C24: a "completed" email has exactly one email_sections row for each chunk
\* of its body, with section_order 1..n in chunk order; so an email for which
\* embedding or storing a chunk failed is not "completed".
C24_CompletedHasEverySection ==
    \A i \in 1..Len(emails) :
        emails[i].processing_status = "completed" =>
            /\ Len(C24_Sections(i)) = Len(Chunks[emails[i].body])
            /\ \A k \in 1..Len(C24_Sections(i)) :
                  /\ C24_Sections(i)[k].section_order = k
                  /\ C24_Sections(i)[k].section_content = Chunks[emails[i].body][k]

\* the processor p runs line 78 for the email it picked in this step
C25_Marks(p) ==
    /\ proc[p].pc = "mark"
    /\ proc'[p].pc \in {"chunk", "complete"}

\* C25: under any interleaving of two process_pending_emails executions, an
\* email is moved to "processing" by one of them only, from "pending", and
\* no email has two email_sections rows with the same section_order.
C25_EmbeddedByOneProcessor ==
    /\ [](\A s, t \in 1..Len(email_sections) :
            (/\ email_sections[s].email_id = email_sections[t].email_id
             /\ email_sections[s].section_order = email_sections[t].section_order)
                => s = t)
    /\ [][\A p \in Processors :
            C25_Marks(p) =>
                emails[Head(proc[p].pending)].processing_status = "pending"]_vars

\* C26: for every text and every chunk_size >= 1, a chunk of split_into_chunks
\* that holds more than one word is at most chunk_size long, and a chunk
\* longer than chunk_size is a single word that is longer than chunk_size.
C26_ChunksWithinSize ==
    split.kind = "chunks" =>
        \A k \in 1..Len(split.chunks) :
            LET chunk == split.chunks[k]
                words == WordsFrom(chunk, 1)
            IN  /\ Len(words) > 1 => Len(chunk) <= split.chunk_size
                /\ Len(chunk) > split.chunk_size =>
                       /\ Len(words) = 1
                       /\ words[1] = chunk
                       /\ Len(words[1]) > split.chunk_size

\* C26 witness: a text split into a chunk of two words and a chunk that is a
\* single word longer than chunk_size
C26_Witness ==
    /\ split.kind = "chunks"
    /\ \E k \in 1..Len(split.chunks) : Len(WordsFrom(split.chunks[k], 1)) > 1
    /\ \E k \in 1..Len(split.chunks) : Len(split.chunks[k]) > split.chunk_size

\* C27: once an email has been marked "done" through the inbox, no later
\* step of gmail_sync or of the processor changes the category of its row.
C27_DoneStaysDone ==
    [][\A i \in 1..Len(emails) :
           emails[i].category = "done" =>
               /\ i <= Len(emails')
               /\ emails'[i].category = "done"]_vars

\* store_emails of --reprocess-all handles, in this step, an email whose
\* gmail_id is the gmail_id of a stored row
C28_ReprocessesStored ==
    /\ sync.pc = "store"
    /\ sync.reprocess_all
    /\ sync'.k = sync.k + 1
    /\ \E i \in 1..Len(emails) : emails[i].gmail_id = sync.emails[sync.k].gmail_id

\* C28: reprocessing an email that is already stored inserts no row and
\* leaves processing_status, body and gmail_id of every row, and the
\* email_sections table, as they were.
C28_ReprocessChangesTriageOnly ==
    [][C28_ReprocessesStored =>
           /\ Len(emails') = Len(emails)
           /\ email_sections' = email_sections
           /\ \A i \in 1..Len(emails) :
                 /\ emails'[i].processing_status = emails[i].processing_status
                 /\ emails'[i].body = emails[i].body
                 /\ emails'[i].gmail_id = emails[i].gmail_id]_vars

\* C29 as stated: a polling loop ends only on SIGTERM or KeyboardInterrupt,
\* and after a failed iteration it sleeps and starts another iteration
\* unless such a signal ends it.
C29_LoopsSurviveFailure ==
    /\ [](\A l \in Loops : loops[l].pc = "exited" => loops[l].exit \in Signals)
    /\ \A l \in Loops :
          (loops[l].pc = "sleep" /\ loops[l].outcome \in Failed)
              ~> (loops[l].pc = "run" \/ loops[l].exit \in Signals)

\* C29: with a non-negative interval a polling loop ends only on SIGTERM or
\* KeyboardInterrupt, and after a failed iteration it sleeps and starts
\* another iteration unless such a signal ends it; run_processing_loop with
\* a negative interval ends with the ValueError of time.sleep.
C29_LoopsSurviveFailedIteration ==
    /\ [](\A l \in Loops :
            loops[l].pc = "exited" =>
                \/ loops[l].exit \in Signals
                \/ /\ l = "run_processing_loop"
                   /\ loops[l].interval < 0
                   /\ loops[l].exit = "ValueError")
    /\ \A l \in Loops :
          (loops[l].pc = "sleep" /\ loops[l].outcome \in Failed
                                 /\ loops[l].interval >= 0)
              ~> (loops[l].pc = "run" \/ loops[l].exit \in Signals)

\* C29 witness: both loops have started another iteration after a failed one
C29_Witness ==
    \A l \in Loops :
        /\ loops[l].pc = "run"
        /\ loops[l].outcome \in Failed
        /\ loops[l].iterations >= 1
====
